---- MODULE Spec2Model ----
(***************************************************************************)
(* A model of rllib/utils/spaces/space_utils.py: the nested-structure      *)
(* batching utilities (batch, unbatch), the dummy-batch generator          *)
(* (get_dummy_batch_for_space), the per-leaf action transforms             *)
(* (clip_action, unsquash_action, normalize_action) and flatten_space.     *)
(*                                                                         *)
(* All functions of the module are pure.  Each one is an operator that     *)
(* computes what the Python code computes; every specification draws the   *)
(* arguments of a call in Init and has one action per function called.     *)
(***************************************************************************)
EXTENDS Integers, Sequences, FiniteSets, TLC

VARIABLES
    pc,                 \* position of the caller: which call has returned
    err,                \* the exception the last call raised, or NoError
    list_of_structs,    \* batch(): the list of per-item structs
    individual_items_already_have_batch_dim,  \* batch(): "False", "True" or "auto"
    ret,                \* batch(): the struct of batches it returned
    out,                \* unbatch(): the list of structs it returned
    space,              \* get_dummy_batch_for_space(): the space
    batch_size,         \* get_dummy_batch_for_space(): B
    fill_value,         \* get_dummy_batch_for_space(): Literal(v) or Random
    time_size,          \* get_dummy_batch_for_space(): <<T>>, or <<>> for None
    time_major,         \* get_dummy_batch_for_space(): BOOLEAN
    one_hot_discrete,   \* get_dummy_batch_for_space(): BOOLEAN
    seed,               \* what the sampler behind space.sample() draws
    dummy,              \* get_dummy_batch_for_space(): the returned batch
    action,             \* the action struct given to a transform
    action_space_struct,\* the struct of spaces given to a transform
    result,             \* the struct the transform returned
    flattened           \* flatten_space(): the list it returned

vars == <<pc, err, list_of_structs, individual_items_already_have_batch_dim,
          ret, out, space, batch_size, fill_value, time_size, time_major,
          one_hot_discrete, seed, dummy, action, action_space_struct, result,
          flattened>>

batchVars == <<list_of_structs, individual_items_already_have_batch_dim, ret, out>>
dummyVars == <<space, batch_size, fill_value, time_size, time_major,
               one_hot_discrete, seed, dummy>>
actionVars == <<action, action_space_struct, result>>
flattenVars == <<flattened>>

\* Bounds of the model.
MaxItems == 2       \* longest list_of_structs
MaxVal == 2         \* array elements and fill values are drawn from 0..MaxVal
MaxBatch == 2       \* largest batch_size
MaxTime == 3        \* largest time_size
MaxBound == 2       \* finite Box bounds are drawn from -MaxBound..MaxBound

NoError == "none"
None == "None"      \* Python's None; also the value of a variable not yet set

(***************************************************************************)
(* Sequences helpers.                                                      *)
(***************************************************************************)
RECURSIVE ConcatAll(_)
ConcatAll(ss) == IF ss = <<>> THEN <<>> ELSE Head(ss) \o ConcatAll(Tail(ss))

RECURSIVE Prod(_)
Prod(shape) == IF shape = <<>> THEN 1 ELSE Head(shape) * Prod(Tail(shape))

RECURSIVE SumSeq(_)
SumSeq(s) == IF s = <<>> THEN 0 ELSE Head(s) + SumSeq(Tail(s))

(***************************************************************************)
(* numpy arrays: a shape, the elements in row-major (C) order, and whether *)
(* the object is an instance of the BatchedNdArray subclass.               *)
(***************************************************************************)
NdArray(shape, data) == [shape |-> shape, data |-> data, batched |-> FALSE]

\* BatchedNdArray.__new__: a view of the same data, of the marker subclass.
BatchedNdArray(a) == [shape |-> a.shape, data |-> a.data, batched |-> TRUE]

\* isinstance(x, BatchedNdArray)
IsBatchedNdArray(a) == a.batched

\* a[i] for a 0-based i < len(a): the i-th slice along axis 0.
Index(a, i) ==
    LET n == Prod(Tail(a.shape))
    IN  NdArray(Tail(a.shape), SubSeq(a.data, i * n + 1, (i + 1) * n))

\* len(a) of an array with at least one axis.
ArrLen(a) == Head(a.shape)

\* np.stack(arrs, axis=0) raises ValueError unless all shapes are equal.
CanStack(arrs) == \A i \in 1..Len(arrs) : arrs[i].shape = arrs[1].shape

\* np.concatenate(arrs, axis=0) raises ValueError for zero-dimensional arrays
\* and unless all shapes agree outside axis 0.
CanConcatenate(arrs) ==
    /\ \A i \in 1..Len(arrs) : arrs[i].shape # <<>>
    /\ \A i \in 1..Len(arrs) : Tail(arrs[i].shape) = Tail(arrs[1].shape)

np_stack_swapped(arrs) ==
    NdArray(<<Len(arrs)>> \o arrs[1].shape,
            ConcatAll([i \in 1..Len(arrs) |-> arrs[Len(arrs) + 1 - i].data]))

\* np.ascontiguousarray(np.stack(arrs, axis=0)): a new leading axis.
np_stack(arrs) ==
    NdArray(<<Len(arrs)>> \o arrs[1].shape,
            ConcatAll([i \in 1..Len(arrs) |-> arrs[i].data]))

np_concatenate_first(arrs) == NdArray(arrs[1].shape, arrs[1].data)

\* np.ascontiguousarray(np.concatenate(arrs, axis=0)): joined along axis 0.
np_concatenate(arrs) ==
    NdArray(<<SumSeq([i \in 1..Len(arrs) |-> Head(arrs[i].shape)])>>
                \o Tail(arrs[1].shape),
            ConcatAll([i \in 1..Len(arrs) |-> arrs[i].data]))

(***************************************************************************)
(* Nested structures as dm-tree sees them: a leaf, a tuple/list            *)
(* ("Sequence") or a dict ("Mapping", with its keys in insertion order).   *)
(***************************************************************************)
Leaf(v) == [kind |-> "Leaf", val |-> v]
Sequence(kids) == [kind |-> "Sequence", kids |-> kids]
Mapping(keys, kids) == [kind |-> "Mapping", keys |-> keys, kids |-> kids]

\* The order of Python's sorted() on the keys used here.
KeyOrder == <<"a", "b", "c">>
Rank(k) == CHOOSE i \in 1..Len(KeyOrder) : KeyOrder[i] = k

\* sorted(keys): the positions of the keys, in ascending key order.
RECURSIVE SortedPositions(_, _)
SortedPositions(keys, todo) ==
    IF todo = {} THEN <<>>
    ELSE LET m == CHOOSE i \in todo : \A j \in todo : Rank(keys[i]) <= Rank(keys[j])
         IN  <<m>> \o SortedPositions(keys, todo \ {m})

\* The order in which dm-tree visits the children of a node.
Order(t) ==
    IF t.kind = "Mapping"
    THEN SortedPositions(t.keys, 1..Len(t.keys))
    ELSE [i \in 1..Len(t.kids) |-> i]

\* tree.flatten(t)
RECURSIVE Flatten(_)
Flatten(t) ==
    IF t.kind = "Leaf" THEN <<t.val>>
    ELSE LET ord == Order(t)
         IN  ConcatAll([i \in 1..Len(ord) |-> Flatten(t.kids[ord[i]])])

RECURSIVE LeafCount(_)
LeafCount(t) ==
    IF t.kind = "Leaf" THEN 1
    ELSE SumSeq([i \in 1..Len(t.kids) |-> LeafCount(t.kids[i])])

\* tree.unflatten_as(t, flat): t's containers around the leaves of flat.
RECURSIVE UnflattenAs(_, _)
UnflattenAs(t, flat) ==
    IF t.kind = "Leaf" THEN Leaf(flat[1])
    ELSE LET ord == Order(t)
             \* number of leaves visited before child number c
             Before(c) ==
                 SumSeq([i \in 1..Len(ord) |->
                     IF \E j \in 1..Len(ord) : ord[j] = c /\ i < j
                     THEN LeafCount(t.kids[ord[i]]) ELSE 0])
             kids == [c \in 1..Len(t.kids) |->
                         UnflattenAs(t.kids[c],
                             SubSeq(flat, Before(c) + 1,
                                    Before(c) + LeafCount(t.kids[c])))]
         IN  IF t.kind = "Mapping" THEN Mapping(t.keys, kids) ELSE Sequence(kids)

\* The topology of a struct: the struct with every leaf blanked out.
RECURSIVE Topology(_)
Topology(t) ==
    IF t.kind = "Leaf" THEN Leaf(None)
    ELSE LET kids == [c \in 1..Len(t.kids) |-> Topology(t.kids[c])]
         IN  IF t.kind = "Mapping" THEN Mapping(t.keys, kids) ELSE Sequence(kids)

\* tree.assert_same_structure: the same containers, lengths and key sets
\* (the insertion order of a dict's keys is not compared).
RECURSIVE SameStructure(_, _)
SameStructure(s, t) ==
    /\ s.kind = t.kind
    /\ s.kind # "Leaf" =>
          /\ Len(s.kids) = Len(t.kids)
          /\ s.kind = "Mapping" =>
                {s.keys[i] : i \in 1..Len(s.keys)} = {t.keys[i] : i \in 1..Len(t.keys)}
          /\ LET os == Order(s)
                 ot == Order(t)
             IN  \A i \in 1..Len(os) : SameStructure(s.kids[os[i]], t.kids[ot[i]])

(***************************************************************************)
(* batch(), lines 326-376.  A call returns [err, val].                     *)
(***************************************************************************)
Raise(e) == [err |-> e, val |-> None]
Return(v) == [err |-> NoError, val |-> v]

ResolveConcatAllLeaves(mode, structs) ==
    IF mode = "auto"
    THEN \A i \in 1..Len(Flatten(structs[1])) :
            IsBatchedNdArray(Flatten(structs[1])[i])
    ELSE mode = "True"

\* Lines 368-372: whether np_func is np.concatenate (else np.stack).  "auto"
\* looks at flat[0], the first leaf of the first item.
ResolveConcat(mode, structs) ==
    IF mode = "auto"
    THEN IsBatchedNdArray(Flatten(structs[1])[1])
    ELSE mode = "True"

\* Lines 373-375: tree.map_structure of np_func over the co-located leaves.
MapNpFunc(concat, structs) ==
    LET flats == [i \in 1..Len(structs) |-> Flatten(structs[i])]
        colocated(p) == [i \in 1..Len(structs) |-> flats[i][p]]
        n == Len(flats[1])
    IN  IF \E i \in 1..Len(structs) : ~SameStructure(structs[1], structs[i])
        THEN Raise("StructureMismatch")
        ELSE IF concat
        THEN IF \E p \in 1..n : ~CanConcatenate(colocated(p))
             THEN Raise("LeafShapeMismatch")
             ELSE Return(UnflattenAs(structs[1],
                         [p \in 1..n |-> np_concatenate(colocated(p))]))
        ELSE IF \E p \in 1..n : ~CanStack(colocated(p))
             THEN Raise("LeafShapeMismatch")
             ELSE Return(UnflattenAs(structs[1],
                         [p \in 1..n |-> np_stack(colocated(p))]))

\* batch() with the first item inspected before the emptiness check.
batch_inspect_first(structs, mode) ==
    IF mode = "auto" /\ structs = <<>> THEN Raise("IndexError")
    ELSE IF structs = <<>> THEN Raise("EmptyBatch")
    ELSE MapNpFunc(ResolveConcat(mode, structs), structs)

\* "EmptyBatch" is the ValueError of line 364; "LeafShapeMismatch" and
\* "StructureMismatch" are the errors numpy and dm-tree raise inside line 373.
batch(structs, mode) ==
    IF structs = <<>> THEN Raise("EmptyBatch")
    ELSE MapNpFunc(ResolveConcat(mode, structs), structs)

(***************************************************************************)
(* unbatch(), lines 380-417.                                               *)
(***************************************************************************)
\* The loop runs over range(len(flat_batches[0])); indexing a shorter leaf at
\* a position past its end raises IndexError ("InconsistentBatchSize") and
\* nothing is returned.  A longer leaf is indexed without error.
unbatch(batches_struct) ==
    LET flat_batches == Flatten(batches_struct)
        n == Len(flat_batches)
        len0 == ArrLen(flat_batches[1])
    IN  IF \E i \in 1..n : ArrLen(flat_batches[i]) < len0
        THEN Raise("InconsistentBatchSize")
        ELSE Return([batch_pos \in 1..len0 |->
                UnflattenAs(batches_struct,
                    [i \in 1..n |-> Index(flat_batches[i], batch_pos - 1)])])

(***************************************************************************)
(* The arguments the batching specification draws.                         *)
(***************************************************************************)
Modes == {"False", "True", "auto"}

\* Leaf shapes of the items: scalars, and arrays with leading sizes 1 and 2.
Shapes == {<<>>, <<1, 2>>, <<2, 2>>}

TopoLeaf == Leaf(None)
\* {"b": (x,), "a": y}: a dict, written with "b" first, holding a tuple.
TopoNested == Mapping(<<"b", "a">>, <<Sequence(<<Leaf(None)>>), Leaf(None)>>)
Topologies == {TopoLeaf, TopoNested}

\* Item number i of a list: leaf p (in flatten order) has shape shapes[p],
\* elements that depend on the item, the leaf and the position, and is a
\* BatchedNdArray where marks[p].
MkItem(topo, shapes, marks, i) ==
    UnflattenAs(topo,
        [p \in 1..LeafCount(topo) |->
            LET a == NdArray(shapes[p],
                        [k \in 1..Prod(shapes[p]) |-> (2 * i + p + k) % (MaxVal + 1)])
            IN  IF marks[p] THEN BatchedNdArray(a) ELSE a])

\* A list of two items that do not share one topology.
MixedList ==
    <<MkItem(TopoLeaf, <<<<>>>>, <<FALSE>>, 1),
      MkItem(TopoNested, <<<<>>, <<>>>>, <<FALSE, FALSE>>, 2)>>

\* Lists of 0..MaxItems items of one topology.  The leaves of the first item
\* are marked one by one, the leaves of the later items all alike.
InitBatch ==
    /\ pc = "start"
    /\ err = NoError
    /\ \/ list_of_structs = MixedList
       \/ \E topo \in Topologies, n \in 0..MaxItems :
            \E shapes \in [1..n -> [1..LeafCount(topo) -> Shapes]],
               marks \in [1..LeafCount(topo) -> BOOLEAN],
               later \in BOOLEAN :
                list_of_structs =
                    [i \in 1..n |->
                        MkItem(topo, shapes[i],
                               IF i = 1 THEN marks
                               ELSE [p \in 1..LeafCount(topo) |-> later],
                               i)]
    /\ individual_items_already_have_batch_dim \in Modes
    /\ ret = None
    /\ out = None
    /\ space = None /\ batch_size = None /\ fill_value = None
    /\ time_size = None /\ time_major = None /\ one_hot_discrete = None
    /\ seed = None /\ dummy = None
    /\ action = None /\ action_space_struct = None /\ result = None
    /\ flattened = None

\* The caller runs batch(list_of_structs, ...).
Batch ==
    /\ pc = "start"
    /\ LET r == batch(list_of_structs, individual_items_already_have_batch_dim)
       IN  /\ err' = r.err
           /\ ret' = r.val
           /\ pc' = IF r.err = NoError THEN "batched" ELSE "batch_raised"
    /\ UNCHANGED <<list_of_structs, individual_items_already_have_batch_dim, out>>
    /\ UNCHANGED <<dummyVars, actionVars, flattenVars>>

\* The caller runs unbatch() on what batch() returned.
Unbatch ==
    /\ pc = "batched"
    /\ LET r == unbatch(ret)
       IN  /\ err' = r.err
           /\ out' = r.val
           /\ pc' = IF r.err = NoError THEN "unbatched" ELSE "unbatch_raised"
    /\ UNCHANGED <<list_of_structs, individual_items_already_have_batch_dim, ret>>
    /\ UNCHANGED <<dummyVars, actionVars, flattenVars>>

NextBatch == Batch \/ Unbatch

SpecBatch == InitBatch /\ [][NextBatch]_vars

(***************************************************************************)
(* Properties of batch() and unbatch(), checked under SpecBatch.           *)
(***************************************************************************)
StackMode == individual_items_already_have_batch_dim = "False"
ConcatMode == individual_items_already_have_batch_dim = "True"
AutoMode == individual_items_already_have_batch_dim = "auto"

\* Equal as arrays (np.array_equal): the same shape and the same elements.
ArrayEqual(a, b) == a.shape = b.shape /\ a.data = b.data

\* The items share one topology.
Compatible(structs) ==
    \A i \in 1..Len(structs) : SameStructure(structs[1], structs[i])

\* Leaf p (in flatten order) of item i.
ItemLeaf(structs, i, p) == Flatten(structs[i])[p]

\* Co-located leaves have identical shapes.
SameLeafShapes(structs) ==
    \A i \in 1..Len(structs) : \A p \in 1..LeafCount(structs[1]) :
        ItemLeaf(structs, i, p).shape = ItemLeaf(structs, 1, p).shape

\* Co-located leaves have a leading axis and agree on the other axes.
SameTrailingShapes(structs) ==
    \A i \in 1..Len(structs) : \A p \in 1..LeafCount(structs[1]) :
        /\ ItemLeaf(structs, i, p).shape # <<>>
        /\ Tail(ItemLeaf(structs, i, p).shape) = Tail(ItemLeaf(structs, 1, p).shape)

Batchable ==
    /\ list_of_structs # <<>>
    /\ Compatible(list_of_structs)

\* C1: in stack mode, for a non-empty list of compatible items whose
\* co-located leaves have identical shapes, batch() and then unbatch() raise
\* nothing and unbatch() returns as many structs as there were items, the
\* i-th with the topology and the leaf values of the i-th item.
C1_RoundTrip ==
    (StackMode /\ Batchable /\ SameLeafShapes(list_of_structs)) =>
        /\ pc \notin {"batch_raised", "unbatch_raised"}
        /\ pc = "unbatched" =>
              /\ Len(out) = Len(list_of_structs)
              /\ \A i \in 1..Len(out) :
                    /\ Topology(out[i]) = Topology(list_of_structs[i])
                    /\ \A p \in 1..LeafCount(out[i]) :
                          ArrayEqual(Flatten(out[i])[p],
                                     ItemLeaf(list_of_structs, i, p))

C1_Witness ==
    /\ pc = "unbatched"
    /\ StackMode
    /\ Len(list_of_structs) = 2
    /\ Topology(list_of_structs[1]) = TopoNested
    /\ ItemLeaf(list_of_structs, 1, 1).shape = <<1, 2>>
    /\ ~ArrayEqual(ItemLeaf(list_of_structs, 1, 1), ItemLeaf(list_of_structs, 2, 1))

\* The leaves of the struct unbatch() was given disagree on len().
LeavesDisagree ==
    \E i, j \in 1..LeafCount(ret) :
        ArrLen(Flatten(ret)[i]) # ArrLen(Flatten(ret)[j])

\* C2: whenever two leaves of the batched struct differ in their leading
\* size, unbatch() raises InconsistentBatchSize and returns nothing.
C2_InconsistentAlwaysFails ==
    (pc \in {"unbatched", "unbatch_raised"} /\ LeavesDisagree) =>
        (pc = "unbatch_raised" /\ err = "InconsistentBatchSize")

\* What batch() did, as a [err, val] record.
BatchOutcome == [err |-> err, val |-> ret]
SameOutcome(r1, r2) ==
    /\ r1.err = r2.err
    /\ r1.err = NoError => r1.val = r2.val

BatchReturned == pc \in {"batched", "batch_raised"}

FirstLeafMarked == IsBatchedNdArray(ItemLeaf(list_of_structs, 1, 1))
EveryLeafMarked ==
    \A p \in 1..LeafCount(list_of_structs[1]) :
        IsBatchedNdArray(ItemLeaf(list_of_structs, 1, p))

\* C3 as stated: "auto" does what concat mode does exactly when every leaf
\* of the first item is a BatchedNdArray, and what stack mode does otherwise.
C3_AutoEveryLeaf ==
    (BatchReturned /\ AutoMode /\ list_of_structs # <<>>) =>
        SameOutcome(BatchOutcome,
            batch(list_of_structs, IF EveryLeafMarked THEN "True" ELSE "False"))

\* C3 amended: "auto" does, at every leaf position, what concat mode does
\* exactly when the first leaf (in flatten order) of the first item is a
\* BatchedNdArray, and what stack mode does otherwise; the other leaves and
\* the other items do not matter.
C3_AutoFirstLeaf ==
    (BatchReturned /\ AutoMode /\ list_of_structs # <<>>) =>
        SameOutcome(BatchOutcome,
            batch(list_of_structs, IF FirstLeafMarked THEN "True" ELSE "False"))

C3_Witness ==
    /\ pc = "batched"
    /\ AutoMode
    /\ Len(list_of_structs) = 2
    /\ FirstLeafMarked
    /\ ~EveryLeafMarked
    /\ ~IsBatchedNdArray(ItemLeaf(list_of_structs, 2, 1))
    /\ Flatten(ret)[2].shape = <<3, 2>>

\* The number of rows of leaf p that the items before item i contribute.
RowsBefore(structs, i, p) ==
    SumSeq([j \in 1..(i - 1) |-> ArrLen(ItemLeaf(structs, j, p))])

\* C4: batch() of B compatible items returns a struct of the items' topology;
\* in stack mode every leaf has shape [B, ...S] and its i-th slice is item
\* i's leaf; in concat mode every leaf has shape [n1+...+nB, ...S] and holds
\* the rows of item 1's leaf, then those of item 2's, and so on.
C4_BatchShape ==
    /\ (StackMode /\ Batchable /\ SameLeafShapes(list_of_structs)) =>
            pc # "batch_raised"
    /\ (ConcatMode /\ Batchable /\ SameTrailingShapes(list_of_structs)) =>
            pc # "batch_raised"
    /\ (pc = "batched" /\ ~AutoMode) =>
        LET B == Len(list_of_structs)
            flat == Flatten(ret)
        IN  /\ \A i \in 1..B : Topology(ret) = Topology(list_of_structs[i])
            /\ \A p \in 1..Len(flat) :
                IF StackMode
                THEN /\ flat[p].shape = <<B>> \o ItemLeaf(list_of_structs, 1, p).shape
                     /\ \A i \in 1..B :
                           ArrayEqual(Index(flat[p], i - 1),
                                      ItemLeaf(list_of_structs, i, p))
                ELSE /\ flat[p].shape =
                           <<SumSeq([i \in 1..B |->
                                ArrLen(ItemLeaf(list_of_structs, i, p))])>>
                           \o Tail(ItemLeaf(list_of_structs, 1, p).shape)
                     /\ \A i \in 1..B :
                           \A r \in 0..(ArrLen(ItemLeaf(list_of_structs, i, p)) - 1) :
                              ArrayEqual(
                                  Index(flat[p], RowsBefore(list_of_structs, i, p) + r),
                                  Index(ItemLeaf(list_of_structs, i, p), r))

C4_Witness ==
    /\ pc = "batched"
    /\ ConcatMode
    /\ Len(list_of_structs) = 2
    /\ Topology(ret) = TopoNested
    /\ ItemLeaf(list_of_structs, 1, 1).shape = <<1, 2>>
    /\ ItemLeaf(list_of_structs, 2, 1).shape = <<2, 2>>
    /\ Flatten(ret)[1].shape = <<3, 2>>

\* C5: batch() of an empty list raises EmptyBatch in every mode, before it
\* looks at a first item, and returns nothing.
C5_EmptyBatch ==
    (pc # "start" /\ list_of_structs = <<>>) =>
        (pc = "batch_raised" /\ err = "EmptyBatch")

C5_Witness ==
    /\ pc = "batch_raised"
    /\ list_of_structs = <<>>
    /\ AutoMode
    /\ err = "EmptyBatch"

(***************************************************************************)
(* Numbers.  A float is an exact fraction n/d with d >= 0 in lowest terms; *)
(* 1/0 is +inf, -1/0 is -inf and 0/0 is nan.  Rounding is not modelled.    *)
(***************************************************************************)
Abs(n) == IF n < 0 THEN -n ELSE n

RECURSIVE Gcd(_, _)
Gcd(m, n) == IF n = 0 THEN m ELSE Gcd(n, m % n)

Sign(n) == IF n > 0 THEN 1 ELSE IF n < 0 THEN -1 ELSE 0

Frac(n, d) ==
    IF d = 0 THEN [n |-> Sign(n), d |-> 0]
    ELSE LET g == Gcd(Abs(n), Abs(d))
         IN  [n |-> Sign(d) * (n \div g), d |-> Abs(d) \div g]

Num(i) == [n |-> i, d |-> 1]
PosInf == [n |-> 1, d |-> 0]
NegInf == [n |-> -1, d |-> 0]
NaN == [n |-> 0, d |-> 0]

IsNaN(x) == x.n = 0 /\ x.d = 0
IsInf(x) == x.n # 0 /\ x.d = 0
IsFinite(x) == x.d # 0

\* x + y; inf + -inf is nan.
FAdd(x, y) ==
    IF IsInf(x) /\ IsInf(y)
    THEN (IF x.n = y.n THEN x ELSE NaN)
    ELSE Frac(x.n * y.d + y.n * x.d, x.d * y.d)

FNeg(x) == [n |-> -x.n, d |-> x.d]
FSub(x, y) == FAdd(x, FNeg(y))

\* x * y; inf * 0 is nan.
FMul(x, y) == Frac(x.n * y.n, x.d * y.d)

\* x / y as numpy divides floats: 0/0 is nan, any other x/0 is +-inf.
FDiv(x, y) ==
    LET recip == IF y.n < 0 THEN [n |-> -y.d, d |-> -y.n]
                 ELSE [n |-> y.d, d |-> y.n]
    IN  FMul(x, recip)

\* x < y; false when either is nan.
FLess(x, y) ==
    IF IsNaN(x) \/ IsNaN(y) THEN FALSE
    ELSE IF IsInf(x) /\ IsInf(y) THEN x.n < y.n
    ELSE x.n * y.d < y.n * x.d

FLessEq(x, y) == ~IsNaN(x) /\ ~IsNaN(y) /\ ~FLess(y, x)

\* np.maximum / np.minimum of two elements; nan propagates.
FMax(x, y) == IF IsNaN(x) \/ IsNaN(y) THEN NaN ELSE IF FLess(x, y) THEN y ELSE x
FMin(x, y) == IF IsNaN(x) \/ IsNaN(y) THEN NaN ELSE IF FLess(y, x) THEN y ELSE x

(***************************************************************************)
(* gymnasium spaces.  A Box holds its bounds element by element, in        *)
(* row-major order.  Dict and Tuple are the composite spaces; a struct of  *)
(* spaces is a Mapping/Sequence whose leaves are primitive spaces.         *)
(***************************************************************************)
Box(low, high, shape, dtype) ==
    [kind |-> "Box", low |-> low, high |-> high, shape |-> shape, dtype |-> dtype]
Discrete(n, start) ==
    [kind |-> "Discrete", n |-> n, start |-> start, shape |-> <<>>, dtype |-> "int64"]
MultiDiscrete(nvec) ==
    [kind |-> "MultiDiscrete", nvec |-> nvec, shape |-> <<Len(nvec)>>, dtype |-> "int64"]
DictSpace(keys, kids) == [kind |-> "Dict", keys |-> keys, kids |-> kids]
TupleSpace(kids) == [kind |-> "Tuple", kids |-> kids]

\* isinstance(space, (gym.spaces.Dict, gym.spaces.Tuple))
IsGymComposite(sp) == sp.kind \in {"Dict", "Tuple"}
\* isinstance(space, (dict, tuple))
IsNativeComposite(sp) == sp.kind \in {"Mapping", "Sequence"}

\* get_base_struct_from_space(), lines 153-185: Tuple -> tuple, Dict -> dict
\* (keys in the order of space.spaces), anything else is kept.
RECURSIVE get_base_struct_from_space(_)
get_base_struct_from_space(sp) ==
    IF sp.kind = "Tuple"
    THEN Sequence([i \in 1..Len(sp.kids) |-> get_base_struct_from_space(sp.kids[i])])
    ELSE IF sp.kind = "Dict"
    THEN Mapping(sp.keys,
                 [i \in 1..Len(sp.kids) |-> get_base_struct_from_space(sp.kids[i])])
    ELSE Leaf(sp)

\* The struct that tree.map_structure walks in line 230.  A native dict or
\* tuple is walked as it is; its leaves are the spaces it holds.
RECURSIVE NativeStruct(_)
NativeStruct(sp) ==
    IF sp.kind = "Leaf" THEN sp
    ELSE IF sp.kind = "Sequence"
    THEN Sequence([i \in 1..Len(sp.kids) |-> NativeStruct(sp.kids[i])])
    ELSE IF sp.kind = "Mapping"
    THEN Mapping(sp.keys, [i \in 1..Len(sp.kids) |-> NativeStruct(sp.kids[i])])
    ELSE Leaf(sp)

BaseStruct(sp) ==
    IF IsGymComposite(sp) THEN get_base_struct_from_space(sp) ELSE NativeStruct(sp)

\* Lines 242-246: with one_hot_discrete, a Discrete(n) becomes
\* Box(0.0, 1.0, (n,), float32) and a MultiDiscrete Box(0.0, 1.0, (sum(nvec),)).
OneHot(sp, one_hot) ==
    IF one_hot /\ sp.kind = "Discrete"
    THEN Box([k \in 1..sp.n |-> Num(0)], [k \in 1..sp.n |-> Num(1)], <<sp.n>>, "float32")
    ELSE IF one_hot /\ sp.kind = "MultiDiscrete"
    THEN Box([k \in 1..SumSeq(sp.nvec) |-> Num(0)],
             [k \in 1..SumSeq(sp.nvec) |-> Num(1)], <<SumSeq(sp.nvec)>>, "float32")
    ELSE sp

(***************************************************************************)
(* get_dummy_batch_for_space(), lines 189-288.                             *)
(***************************************************************************)
\* fill_value: a number, or the string "random".
Literal(v) == [kind |-> "literal", value |-> v]
Random == [kind |-> "random", value |-> 0]

\* time_size: Optional[int].
NoTime == <<>>
Time(t) == <<t>>

\* One element of space.sample(): a member of the space, picked by the draw s.
SampleElem(sp, s, k) ==
    IF sp.kind = "Discrete" THEN Num(sp.start + (s % sp.n))
    ELSE IF sp.kind = "MultiDiscrete" THEN Num(s % sp.nvec[k])
    ELSE IF IsFinite(sp.low[k]) /\ IsFinite(sp.high[k])
         THEN (IF s % 2 = 0 THEN sp.low[k] ELSE sp.high[k])
    ELSE IF IsFinite(sp.low[k]) THEN FAdd(sp.low[k], Num(s))
    ELSE IF IsFinite(sp.high[k]) THEN FSub(sp.high[k], Num(s))
    ELSE Num(s)

\* np.array of Prod(leading) samples, lines 254-275; the j-th sample is the
\* draw s + j.
SampleArray(sp, leading, s) ==
    NdArray(leading \o sp.shape,
            ConcatAll([j \in 1..Prod(leading) |->
                [k \in 1..Prod(sp.shape) |-> SampleElem(sp, s + j, k)]]))

\* np.full(shape, fill_value=v), lines 286-288.
np_full(shape, v) == NdArray(shape, [k \in 1..Prod(shape) |-> v])

AssertBatchTime_time_only(bs, t) == t > 0

\* Lines 252 and 279: assert batch_size > 0 and time_size > 0.
AssertBatchTime(bs, t) == bs > 0 /\ t > 0

LeadingShape_batch_major(bs, ts, tm) ==
    IF ts # NoTime THEN <<bs, ts[1]>>
    ELSE IF bs > 0 THEN <<bs>> ELSE <<>>

\* Lines 278-285 (and the same cases in lines 251-275): the leading axes.
LeadingShape(bs, ts, tm) ==
    IF ts # NoTime
    THEN (IF tm THEN <<ts[1], bs>> ELSE <<bs, ts[1]>>)
    ELSE IF bs > 0 THEN <<bs>> ELSE <<>>

\* Lines 242-288: the batch of one primitive space.
DummyLeaf(sp0, bs, fv, ts, tm, one_hot, s) ==
    LET sp == OneHot(sp0, one_hot)
    IN  IF ts # NoTime /\ ~AssertBatchTime(bs, ts[1])
        THEN Raise("InvalidBatchTimeCombination")
        ELSE IF fv.kind = "random"
        THEN Return(SampleArray(sp, LeadingShape(bs, ts, tm), s))
        ELSE Return(np_full(LeadingShape(bs, ts, tm) \o sp.shape, fv.value))

\* Lines 225-240: a composite space is turned into its base struct and the
\* function is mapped over its leaves; a primitive space is a single leaf.
get_dummy_batch_for_space(sp, bs, fv, ts, tm, one_hot, s) ==
    LET struct == BaseStruct(sp)
        leaves == Flatten(struct)
        rs == [p \in 1..Len(leaves) |-> DummyLeaf(leaves[p], bs, fv, ts, tm, one_hot, s)]
    IN  IF \E p \in 1..Len(rs) : rs[p].err # NoError
        THEN Raise(rs[CHOOSE p \in 1..Len(rs) :
                        /\ rs[p].err # NoError
                        /\ \A q \in 1..(p - 1) : rs[q].err = NoError].err)
        ELSE Return(UnflattenAs(struct, [p \in 1..Len(rs) |-> rs[p].val]))

\* The spaces the dummy-batch specification draws.
Box1 == Box(<<Num(-1)>>, <<Num(1)>>, <<1>>, "float32")
Box21 == Box(<<Num(0), Num(0)>>, <<Num(2), PosInf>>, <<2, 1>>, "float64")
Box0 == Box(<<NegInf>>, <<PosInf>>, <<>>, "float32")
Disc3 == Discrete(3, 1)
Multi23 == MultiDiscrete(<<2, 3>>)
DummySpaces ==
    { Box1, Box21, Box0, Disc3, Multi23,
      DictSpace(<<"b", "a">>, <<TupleSpace(<<Disc3, Box21>>), Box1>>),
      Sequence(<<Leaf(Multi23), Mapping(<<"a">>, <<Leaf(Box0)>>)>>) }

InitDummy ==
    /\ pc = "start"
    /\ err = NoError
    /\ space \in DummySpaces
    /\ batch_size \in 0..MaxBatch
    /\ fill_value \in {Literal(v) : v \in 0..MaxVal} \cup {Random}
    /\ time_size \in {NoTime} \cup {Time(t) : t \in 0..MaxTime}
    /\ time_major \in BOOLEAN
    /\ one_hot_discrete \in BOOLEAN
    /\ seed \in 0..1
    /\ dummy = None
    /\ list_of_structs = None /\ individual_items_already_have_batch_dim = None
    /\ ret = None /\ out = None
    /\ action = None /\ action_space_struct = None /\ result = None
    /\ flattened = None

\* The caller runs get_dummy_batch_for_space(space, batch_size, ...).
GetDummyBatch ==
    /\ pc = "start"
    /\ LET r == get_dummy_batch_for_space(space, batch_size, fill_value, time_size,
                                          time_major, one_hot_discrete, seed)
       IN  /\ err' = r.err
           /\ dummy' = r.val
           /\ pc' = IF r.err = NoError THEN "dummy_returned" ELSE "dummy_raised"
    /\ UNCHANGED <<space, batch_size, fill_value, time_size, time_major,
                   one_hot_discrete, seed>>
    /\ UNCHANGED <<batchVars, actionVars, flattenVars>>

NextDummy == GetDummyBatch

SpecDummy == InitDummy /\ [][NextDummy]_vars

\* The leaf shape the batch is built from: the descriptor's, after the
\* one-hot reinterpretation of lines 242-246.
DescriptorShape(sp) ==
    IF one_hot_discrete /\ sp.kind = "Discrete" THEN <<sp.n>>
    ELSE IF one_hot_discrete /\ sp.kind = "MultiDiscrete" THEN <<SumSeq(sp.nvec)>>
    ELSE sp.shape

\* The leading axes the shape rule gives.
RuleLeading ==
    IF time_size # NoTime
    THEN (IF time_major THEN <<time_size[1], batch_size>>
          ELSE <<batch_size, time_size[1]>>)
    ELSE IF batch_size > 0 THEN <<batch_size>> ELSE <<>>

C7_InvalidBatchTime ==
    (pc # "start" /\ time_size # NoTime /\ batch_size = 0) =>
        (pc = "dummy_raised" /\ err = "InvalidBatchTimeCombination")

C7_Witness ==
    /\ pc = "dummy_raised"
    /\ err = "InvalidBatchTimeCombination"
    /\ batch_size = 0
    /\ time_size = Time(2)
    /\ fill_value = Random
    /\ time_major
    /\ IsNativeComposite(space)

(***************************************************************************)
(* The action transforms, lines 421-517.  Each maps a function map_(a, s)  *)
(* over the leaves of the action and of the struct of spaces.              *)
(***************************************************************************)
\* np.all(s.bounded_below), np.all(s.bounded_above)
AllBoundedBelow(s) == \A k \in 1..Len(s.low) : FLess(NegInf, s.low[k])
AllBoundedAbove(s) == \A k \in 1..Len(s.high) : FLess(s.high[k], PosInf)

\* s.dtype == np.float32 or s.dtype == np.float64
IsFloat32Or64(s) == s.dtype \in {"float32", "float64"}
\* np.issubdtype(s.dtype, np.integer)
IsIntegerDtype(s) == s.dtype \in {"int32", "int64"}

ClipElem_upper_only(a, lo, hi) == FMin(a, hi)

\* np.clip(a, low, high), one element.
ClipElem(a, lo, hi) == FMin(FMax(a, lo), hi)

UnsquashElem_unclipped(a, lo, hi) ==
    FAdd(lo, FDiv(FMul(FAdd(a, Num(1)), FSub(hi, lo)), Num(2)))

\* Lines 476-479: low + (a + 1.0) * (high - low) / 2.0, then np.clip.
UnsquashElem(a, lo, hi) ==
    ClipElem(FAdd(lo, FDiv(FMul(FAdd(a, Num(1)), FSub(hi, lo)), Num(2))), lo, hi)

ShiftElem_unshifted(a, lo) == a

\* Line 483: s.low + a.
ShiftElem(a, lo) == FAdd(lo, a)

NormalizeElem_unit_interval(a, lo, hi) == FDiv(FSub(a, lo), FSub(hi, lo))

\* Line 514: ((a - low) * 2.0) / (high - low) - 1.0.
NormalizeElem(a, lo, hi) ==
    FSub(FDiv(FMul(FSub(a, lo), Num(2)), FSub(hi, lo)), Num(1))

\* The array whose k-th element is f[k], of a's shape.
Elementwise(a, f) == NdArray(a.shape, [k \in 1..Len(a.data) |-> f[k]])

\* clip_action.map_, lines 437-440.
clip_map(a, s) ==
    IF s.kind = "Box"
    THEN Elementwise(a, [k \in 1..Len(a.data) |-> ClipElem(a.data[k], s.low[k], s.high[k])])
    ELSE a

\* unsquash_action.map_, lines 467-484.
unsquash_map(a, s) ==
    IF s.kind = "Box" /\ AllBoundedBelow(s) /\ AllBoundedAbove(s)
    THEN IF IsFloat32Or64(s)
         THEN Elementwise(a, [k \in 1..Len(a.data) |->
                                UnsquashElem(a.data[k], s.low[k], s.high[k])])
         ELSE IF IsIntegerDtype(s)
         THEN Elementwise(a, [k \in 1..Len(a.data) |-> ShiftElem(a.data[k], s.low[k])])
         ELSE a
    ELSE a

\* normalize_action.map_, lines 509-515.
normalize_map(a, s) ==
    IF s.kind = "Box" /\ IsFloat32Or64(s)
    THEN Elementwise(a, [k \in 1..Len(a.data) |->
                            NormalizeElem(a.data[k], s.low[k], s.high[k])])
    ELSE a

\* tree.map_structure(map_, action, action_space_struct) for the three map_.
MapStructure2(which, act, struct) ==
    LET as == Flatten(act)
        ss == Flatten(struct)
    IN  IF ~SameStructure(act, struct) THEN Raise("StructureMismatch")
        ELSE Return(UnflattenAs(act,
                [p \in 1..Len(as) |->
                    IF which = "clip" THEN clip_map(as[p], ss[p])
                    ELSE IF which = "unsquash" THEN unsquash_map(as[p], ss[p])
                    ELSE normalize_map(as[p], ss[p])]))

clip_action(act, struct) == MapStructure2("clip", act, struct)
unsquash_action(act, struct) == MapStructure2("unsquash", act, struct)
normalize_action(act, struct) == MapStructure2("normalize", act, struct)

(***************************************************************************)
(* The arguments the transform specification draws.                        *)
(***************************************************************************)
Dtypes == {"float16", "float32", "float64", "int64"}
Lows == {NegInf} \cup {Num(i) : i \in (-MaxBound)..MaxBound}
Highs == {PosInf} \cup {Num(i) : i \in (-MaxBound)..MaxBound}

\* Action values: the multiples of 1/2 in [-2, 2], inside and outside [-1, 1].
ActionValues == {Frac(i, 2) : i \in (-4)..4}

\* One-element Boxes with low <= high, of every dtype.
Boxes1 ==
    { Box(<<lo>>, <<hi>>, <<1>>, dt) :
        lo \in Lows, hi \in Highs, dt \in Dtypes }

\* Two-element Boxes: bounded, and bounded in one element only.
Boxes2 ==
    { Box(<<Num(0), lo>>, <<Num(2), Num(1)>>, <<2>>, dt) :
        lo \in {NegInf, Num(-1)}, dt \in Dtypes }

\* A leaf space with an action for it.
BoxCases ==
    {<<NdArray(<<1>>, <<a>>), b>> :
        a \in ActionValues, b \in {x \in Boxes1 : FLessEq(x.low[1], x.high[1])}}
    \cup {<<NdArray(<<2>>, <<a, FNeg(a)>>), b>> : a \in ActionValues, b \in Boxes2}

DiscreteCases ==
    {<<NdArray(<<>>, <<Num(i)>>), Discrete(3, st)>> : i \in 0..2, st \in 0..1}
    \cup {<<NdArray(<<2>>, <<Num(i), Num(2 - i)>>), Multi23>> : i \in 0..1}

InitAction ==
    /\ pc = "start"
    /\ err = NoError
    /\ \/ \E c \in BoxCases \cup DiscreteCases :
            /\ action = Leaf(c[1])
            /\ action_space_struct = Leaf(c[2])
       \/ \E c \in BoxCases, d \in DiscreteCases :
            \* {"b": (discrete,), "a": box}
            /\ action = Mapping(<<"b", "a">>, <<Sequence(<<Leaf(d[1])>>), Leaf(c[1])>>)
            /\ action_space_struct =
                    Mapping(<<"b", "a">>, <<Sequence(<<Leaf(d[2])>>), Leaf(c[2])>>)
    /\ result = None
    /\ list_of_structs = None /\ individual_items_already_have_batch_dim = None
    /\ ret = None /\ out = None
    /\ space = None /\ batch_size = None /\ fill_value = None
    /\ time_size = None /\ time_major = None /\ one_hot_discrete = None
    /\ seed = None /\ dummy = None
    /\ flattened = None

Transform(r, done) ==
    /\ pc = "start"
    /\ err' = r.err
    /\ result' = r.val
    /\ pc' = IF r.err = NoError THEN done ELSE "transform_raised"
    /\ UNCHANGED <<action, action_space_struct>>
    /\ UNCHANGED <<batchVars, dummyVars, flattenVars>>

\* The caller runs clip_action(action, action_space_struct).
ClipAction == Transform(clip_action(action, action_space_struct), "clipped")

\* The caller runs unsquash_action(action, action_space_struct).
UnsquashAction == Transform(unsquash_action(action, action_space_struct), "unsquashed")

\* The caller runs normalize_action(action, action_space_struct).
NormalizeAction == Transform(normalize_action(action, action_space_struct), "normalized")

\* The caller runs normalize_action() on what unsquash_action() returned.
NormalizeUnsquashed ==
    /\ pc = "unsquashed"
    /\ LET r == normalize_action(result, action_space_struct)
       IN  /\ err' = r.err
           /\ result' = r.val
           /\ pc' = IF r.err = NoError THEN "renormalized" ELSE "transform_raised"
    /\ UNCHANGED <<action, action_space_struct>>
    /\ UNCHANGED <<batchVars, dummyVars, flattenVars>>

NextAction == ClipAction \/ UnsquashAction \/ NormalizeAction \/ NormalizeUnsquashed

SpecAction == InitAction /\ [][NextAction]_vars

(***************************************************************************)
(* Properties of the action transforms, checked under SpecAction.          *)
(***************************************************************************)
ActionLeaves == Flatten(action)
SpaceLeaves == Flatten(action_space_struct)
ResultLeaves == Flatten(result)
LeafPositions == 1..Len(SpaceLeaves)

IsDiscreteKind(s) == s.kind \in {"Discrete", "MultiDiscrete"}

\* Every element of the Box has a finite low and a finite high.
FiniteBounds(s) ==
    \A k \in 1..Len(s.low) : IsFinite(s.low[k]) /\ IsFinite(s.high[k])

\* The start offset of a Discrete leaf; a MultiDiscrete starts at 0.
StartOf(s) == IF s.kind = "Discrete" THEN Num(s.start) ELSE Num(0)

C9_NormalizeOnlyFiniteFloatBox ==
    pc = "normalized" =>
        \A p \in LeafPositions :
            ~(/\ SpaceLeaves[p].kind = "Box"
              /\ IsFloat32Or64(SpaceLeaves[p])
              /\ FiniteBounds(SpaceLeaves[p])) =>
                    ResultLeaves[p] = ActionLeaves[p]

\* clamp(x, lo, hi)
Clamp(x, lo, hi) == IF FLess(x, lo) THEN lo ELSE IF FLess(hi, x) THEN hi ELSE x

Elements(p) == 1..Len(ActionLeaves[p].data)

\* Leaf p is a Box of dtype float32 or float64 with finite bounds.
FiniteFloatBox(p) ==
    /\ SpaceLeaves[p].kind = "Box"
    /\ IsFloat32Or64(SpaceLeaves[p])
    /\ FiniteBounds(SpaceLeaves[p])

\* C11 as stated: for every Box leaf of floating dtype with finite bounds and
\* every action value a, normalize(unsquash(a, d), d) equals a.
C11_RoundTripEveryValue ==
    pc = "renormalized" =>
        \A p \in LeafPositions :
            FiniteFloatBox(p) => ResultLeaves[p] = ActionLeaves[p]

\* C11 amended: for every Box leaf of dtype float32 or float64 with finite
\* bounds, normalize(unsquash(a, d), d) equals a in every element with
\* low < high and -1 <= a <= 1.
C11_RoundTripInRange ==
    pc = "renormalized" =>
        \A p \in LeafPositions :
            FiniteFloatBox(p) =>
                /\ ResultLeaves[p].shape = ActionLeaves[p].shape
                /\ \A k \in Elements(p) :
                    (/\ FLess(SpaceLeaves[p].low[k], SpaceLeaves[p].high[k])
                     /\ FLessEq(Num(-1), ActionLeaves[p].data[k])
                     /\ FLessEq(ActionLeaves[p].data[k], Num(1))) =>
                        ResultLeaves[p].data[k] = ActionLeaves[p].data[k]

C11_Witness ==
    /\ pc = "renormalized"
    /\ action_space_struct = Leaf(Box(<<Num(0)>>, <<Num(2)>>, <<1>>, "float32"))
    /\ action = Leaf(NdArray(<<1>>, <<Frac(-1, 2)>>))
    /\ result = action

\* C12: clip returns, for every Box leaf, the element-wise clamp of the value
\* to [low, high] (an element below low becomes low, one above high becomes
\* high, one in between is unchanged), returns every other leaf unchanged,
\* and returns a struct of the action's topology.
C12_ClipClamps ==
    /\ pc = "clipped" =>
        /\ Topology(result) = Topology(action)
        /\ \A p \in LeafPositions :
            LET s == SpaceLeaves[p]
                a == ActionLeaves[p]
                r == ResultLeaves[p]
            IN  IF s.kind = "Box"
                THEN /\ r.shape = a.shape
                     /\ Len(r.data) = Len(a.data)
                     /\ \A k \in Elements(p) :
                          /\ FLess(a.data[k], s.low[k]) => r.data[k] = s.low[k]
                          /\ FLess(s.high[k], a.data[k]) => r.data[k] = s.high[k]
                          /\ (FLessEq(s.low[k], a.data[k]) /\ FLessEq(a.data[k], s.high[k]))
                                => r.data[k] = a.data[k]
                ELSE r = a
    /\ (pc # "start" /\ SameStructure(action, action_space_struct)) =>
            pc # "transform_raised"

C12_Witness ==
    /\ pc = "clipped"
    /\ Len(SpaceLeaves) = 2
    /\ SpaceLeaves[1] = Box(<<Num(-1)>>, <<Num(1)>>, <<1>>, "float32")
    /\ ActionLeaves[1].data = <<Frac(-3, 2)>>
    /\ ResultLeaves[1].data = <<Num(-1)>>
    /\ SpaceLeaves[2] = Discrete(3, 1)
    /\ ResultLeaves[2] = ActionLeaves[2]

(***************************************************************************)
(* flatten_space(), lines 121-149.                                         *)
(***************************************************************************)
DictKeyOrder_as_inserted(sp) == [i \in 1..Len(sp.keys) |-> i]

\* Line 142: sorted(space_.spaces), as the positions of the keys.
DictKeyOrder(sp) == SortedPositions(sp.keys, 1..Len(sp.keys))

\* _helper_flatten(space_, return_list), lines 135-145: the list after the
\* call.  HelperFlattenEach is the for loop over the children numbered ord.
RECURSIVE helper_flatten(_, _), HelperFlattenEach(_, _, _)
HelperFlattenEach(space_, ord, return_list) ==
    IF ord = <<>> THEN return_list
    ELSE HelperFlattenEach(space_, Tail(ord),
                           helper_flatten(space_.kids[Head(ord)], return_list))

helper_flatten(space_, return_list) ==
    IF space_.kind = "Tuple"
    THEN HelperFlattenEach(space_, [i \in 1..Len(space_.kids) |-> i], return_list)
    ELSE IF space_.kind = "Dict"
    THEN HelperFlattenEach(space_, DictKeyOrder(space_), return_list)
    ELSE Append(return_list, space_)

\* Lines 147-149.
flatten_space(sp) == helper_flatten(sp, <<>>)

\* The spaces the flattening specification draws: primitive spaces, a Tuple,
\* Dicts with their keys inserted in every order, and a Dict holding a Tuple
\* that holds a Dict.
FlattenLeaves == {Box1, Box0, Disc3, Multi23}
NestedLeaves == {Box1, Disc3, Multi23}
Keys == {KeyOrder[i] : i \in 1..Len(KeyOrder)}

InitFlatten ==
    /\ pc = "start"
    /\ err = NoError
    /\ \/ space \in FlattenLeaves
       \/ \E x, y \in FlattenLeaves : space = TupleSpace(<<x, y>>)
       \/ \E x, y \in FlattenLeaves, k1, k2 \in Keys :
            /\ k1 # k2
            /\ space = DictSpace(<<k1, k2>>, <<x, y>>)
       \/ \E x, y, z \in NestedLeaves, k1, k2, k3, j1, j2 \in Keys :
            /\ {k1, k2, k3} = Keys
            /\ j1 # j2
            /\ space = DictSpace(<<k1, k2, k3>>,
                          <<x, TupleSpace(<<y, DictSpace(<<j1, j2>>, <<z, x>>)>>), y>>)
    /\ flattened = None
    /\ batch_size = None /\ fill_value = None
    /\ time_size = None /\ time_major = None /\ one_hot_discrete = None
    /\ seed = None /\ dummy = None
    /\ list_of_structs = None /\ individual_items_already_have_batch_dim = None
    /\ ret = None /\ out = None
    /\ action = None /\ action_space_struct = None /\ result = None

\* The caller runs flatten_space(space).
FlattenSpace ==
    /\ pc = "start"
    /\ flattened' = flatten_space(space)
    /\ pc' = "flattened"
    /\ UNCHANGED <<err, batchVars, dummyVars, actionVars>>

NextFlatten == FlattenSpace

SpecFlatten == InitFlatten /\ [][NextFlatten]_vars

\* The number of non-composite leaves of a descriptor.
RECURSIVE SpaceLeafCount(_)
SpaceLeafCount(sp) ==
    IF sp.kind \in {"Dict", "Tuple"}
    THEN SumSeq([i \in 1..Len(sp.kids) |-> SpaceLeafCount(sp.kids[i])])
    ELSE 1

\* The leaves of a descriptor in depth-first canonical order: the members of
\* a Tuple by ascending position, the members of a Dict by ascending key.
RECURSIVE CanonicalLeaves(_)
CanonicalLeaves(sp) ==
    IF sp.kind = "Tuple"
    THEN ConcatAll([i \in 1..Len(sp.kids) |-> CanonicalLeaves(sp.kids[i])])
    ELSE IF sp.kind = "Dict"
    THEN ConcatAll([r \in 1..Len(KeyOrder) |->
            IF \E i \in 1..Len(sp.keys) : sp.keys[i] = KeyOrder[r]
            THEN CanonicalLeaves(
                    sp.kids[CHOOSE i \in 1..Len(sp.keys) : sp.keys[i] = KeyOrder[r]])
            ELSE <<>>])
    ELSE <<sp>>

\* C13: flatten_space returns exactly the non-composite leaves of the
\* descriptor, each once, in depth-first canonical order (Tuple positions
\* ascending, Dict keys ascending whatever their insertion order); no Dict
\* or Tuple is in the list, and the list is as long as the leaf count.
C13_FlattenCanonical ==
    pc = "flattened" =>
        /\ flattened = CanonicalLeaves(space)
        /\ Len(flattened) = SpaceLeafCount(space)
        /\ \A i \in 1..Len(flattened) : flattened[i].kind \notin {"Dict", "Tuple"}

C13_Witness ==
    /\ pc = "flattened"
    /\ space = DictSpace(<<"c", "a", "b">>,
                  <<Box1, TupleSpace(<<Disc3, DictSpace(<<"b", "a">>, <<Multi23, Box1>>)>>),
                    Disc3>>)
    /\ flattened = <<Disc3, Box1, Multi23, Disc3, Box1>>

====
